---- MODULE Spec2Model ----
(***************************************************************************)
(* Content threat-scoring service: the protection engine                   *)
(* (app/services/protection_engine.py) and the protection API handlers     *)
(* (app/api/protection.py) over the settings table and the analysis log.   *)
(*                                                                         *)
(* Confidence scores are Python floats.  A score is represented by an      *)
(* integer number of ten-thousandths: 1000*k is the double nearest to      *)
(* k/10, 1000*k+1 and 1000*k-1 are the doubles that IEEE-754 addition      *)
(* produces just above and just below it (0.1+0.1+0.1 = 0.30000000000000004 *)
(* is 3001, 0.6+0.3 = 0.8999999999999999 is 8999).  Every value above 1.0  *)
(* is AboveOne: the scorers only ever take min(score, 1.0) of it.          *)
(***************************************************************************)
EXTENDS Integers, Sequences, FiniteSets, TLC

\* ------------------------------------------------------------------------
\* Float arithmetic of the scorers
\* ------------------------------------------------------------------------

\* the float literal k/10 (0.3 is F(3), 1.0 is F(10))
F(k) == 1000 * k

\* any double greater than 1.0
AboveOne == F(11)

\* the pairs below 1.0 on which double addition does not give the double
\* nearest to the decimal sum
FRounding ==
  (<<1000, 2000>> :> 3001) @@ (<<2000, 1000>> :> 3001) @@
  (<<2000, 4000>> :> 6001) @@ (<<3000, 6000>> :> 8999) @@
  (<<3001, 1000>> :> 4000) @@ (<<3001, 2000>> :> 5000) @@
  (<<3001, 5000>> :> 8000) @@ (<<3001, 6000>> :> 9000) @@
  (<<4000, 2000>> :> 6001) @@ (<<6000, 3000>> :> 8999) @@
  (<<6001, 2000>> :> 8000) @@ (<<6001, 4000>> :> 10000) @@
  (<<7000, 1000>> :> 7999) @@ (<<7000, 2000>> :> 8999) @@
  (<<7001, 1000>> :> 8000) @@ (<<7001, 3000>> :> 10000) @@
  (<<7999, 2000>> :> 10000)

\* a + b on doubles
FAdd(a, b) ==
  IF a >= AboveOne THEN AboveOne
  ELSE IF <<a, b>> \in DOMAIN FRounding THEN FRounding[<<a, b>>]
  ELSE IF a + b > F(10) THEN AboveOne
  ELSE a + b

\* a min that always returns its first argument
FMin_first(a, b) == a

\* min(a, b)
FMin(a, b) == IF a <= b THEN a ELSE b

\* x after n times "x += step"
RECURSIVE FAddTimes(_, _, _)
FAddTimes(x, step, n) ==
  IF n = 0 THEN x ELSE FAddTimes(FAdd(x, step), step, n - 1)

\* a list of n copies of s
RECURSIVE Repeat(_, _)
Repeat(s, n) == IF n = 0 THEN <<>> ELSE <<s>> \o Repeat(s, n - 1)

\* ------------------------------------------------------------------------
\* Content: what the engine's patterns find in a string
\* ------------------------------------------------------------------------

\* self.threat_patterns, in dict order
ThreatCategories == <<"phishing", "fraud", "spam", "malware">>

MB == 1024 * 1024

\* "+1234567890"
PhoneNumber ==
  [id |-> "spam_number", size |-> 11, text_length |-> 11,
   matches |-> [phishing |-> 0, fraud |-> 0, spam |-> 0, malware |-> 0],
   urgency |-> 0, urls |-> <<>>, phones |-> <<TRUE>>,
   domains |-> 0, ip |-> FALSE, url_patterns |-> 0, subdomain_count |-> 0,
   spam_number |-> 1, phone_length |-> 11, digits |-> 10, premium |-> 0]

\* "URGENT your account has been suspended, verify identity immediately
\*  http://bit.ly/x"
PhishingText ==
  [id |-> "phishing_text", size |-> 83, text_length |-> 83,
   matches |-> [phishing |-> 2, fraud |-> 0, spam |-> 0, malware |-> 0],
   urgency |-> 2, urls |-> <<1>>, phones |-> <<>>,
   domains |-> 1, ip |-> FALSE, url_patterns |-> 0, subdomain_count |-> 1,
   spam_number |-> 0, phone_length |-> 0, digits |-> 0, premium |-> 0]

\* "http://10.0.0.1/a"
IpUrl ==
  [id |-> "ip_url", size |-> 17, text_length |-> 17,
   matches |-> [phishing |-> 0, fraud |-> 0, spam |-> 0, malware |-> 0],
   urgency |-> 0, urls |-> <<0>>, phones |-> <<>>,
   domains |-> 0, ip |-> TRUE, url_patterns |-> 0, subdomain_count |-> 3,
   spam_number |-> 0, phone_length |-> 5, digits |-> 2, premium |-> 0]

\* 6 MB of the letter "A"
LargeBlob ==
  [id |-> "large_blob", size |-> 6 * MB, text_length |-> 6 * MB,
   matches |-> [phishing |-> 0, fraud |-> 0, spam |-> 0, malware |-> 0],
   urgency |-> 0, urls |-> <<>>, phones |-> <<>>,
   domains |-> 0, ip |-> FALSE, url_patterns |-> 0, subdomain_count |-> 0,
   spam_number |-> 0, phone_length |-> 0, digits |-> 0, premium |-> 0]

\* 11 MB of the letter "A"
HugeBlob ==
  [id |-> "huge_blob", size |-> 11 * MB, text_length |-> 11 * MB,
   matches |-> [phishing |-> 0, fraud |-> 0, spam |-> 0, malware |-> 0],
   urgency |-> 0, urls |-> <<>>, phones |-> <<>>,
   domains |-> 0, ip |-> FALSE, url_patterns |-> 0, subdomain_count |-> 0,
   spam_number |-> 0, phone_length |-> 0, digits |-> 0, premium |-> 0]

\* hashlib.sha256(bytes).hexdigest(): equal bytes give equal hashes, and no
\* two of the contents above collide
calculate_content_hash(c) == c.id

\* ------------------------------------------------------------------------
\* ProtectionEngine scorers
\* ------------------------------------------------------------------------

\* the per-category loop of _analyze_text over categories i..4
RECURSIVE CategoryLoop(_, _, _)
CategoryLoop(c, i, acc) ==
  IF i > Len(ThreatCategories) THEN acc
  ELSE LET category == ThreatCategories[i]
           n == c.matches[category]
           category_score == FAddTimes(0, F(3), n)
       IN  CategoryLoop(c, i + 1,
             [threat_score |-> IF category_score > 0
                               THEN FAdd(acc.threat_score, FMin(category_score, F(8)))
                               ELSE acc.threat_score,
              detected_threats |-> IF category_score > 0
                                   THEN Append(acc.detected_threats, category)
                                   ELSE acc.detected_threats,
              risk_factors |-> acc.risk_factors
                                \o Repeat("Detected " \o category \o " pattern", n)])

\* _analyze_url_in_text: 0.3 per shortener domain in the URL, at most 0.5
analyze_url_in_text(domains) == FMin(FAddTimes(0, F(3), domains), F(5))

\* _analyze_phone_in_text: 0.4 when the number matches a spam pattern
analyze_phone_in_text(isSpam) == IF isSpam THEN F(4) ELSE 0

\* the loop over the URLs found in the text
RECURSIVE UrlLoop(_, _, _)
UrlLoop(urls, i, acc) ==
  IF i > Len(urls) THEN acc
  ELSE LET url_score == analyze_url_in_text(urls[i])
       IN  UrlLoop(urls, i + 1,
             [acc EXCEPT !.threat_score = FAdd(@, url_score),
                         !.risk_factors = IF url_score > F(3)
                                          THEN Append(@, "Suspicious URL detected")
                                          ELSE @])

\* the loop over the phone numbers found in the text
RECURSIVE PhoneLoop(_, _, _)
PhoneLoop(phones, i, acc) ==
  IF i > Len(phones) THEN acc
  ELSE LET phone_score == analyze_phone_in_text(phones[i])
       IN  PhoneLoop(phones, i + 1,
             [acc EXCEPT !.threat_score = FAdd(@, phone_score),
                         !.risk_factors = IF phone_score > F(3)
                                          THEN Append(@, "Suspicious phone number")
                                          ELSE @])

\* threat level and action for a score under thresholds (blocked, suspicious)
Classify(threat_score, blockAt, flagAt) ==
  IF threat_score >= blockAt THEN [threat_level |-> "blocked", action_taken |-> "blocked"]
  ELSE IF threat_score >= flagAt THEN [threat_level |-> "suspicious", action_taken |-> "flagged"]
  ELSE [threat_level |-> "safe", action_taken |-> "allowed"]

analyze_text(c) ==
  LET cats == CategoryLoop(c, 1, [threat_score |-> 0, detected_threats |-> <<>>,
                                  risk_factors |-> <<>>])
      urgency_score == FAddTimes(0, F(1), c.urgency)
      urg == [cats EXCEPT !.threat_score = FAdd(@, FMin(urgency_score, F(3))),
                          !.risk_factors = @ \o Repeat("Urgency language detected", c.urgency)]
      withUrls == UrlLoop(c.urls, 1, urg)
      withPhones == PhoneLoop(c.phones, 1, withUrls)
      threat_score == FMin(withPhones.threat_score, F(10))
      cl == Classify(threat_score, F(9), F(6))
  IN  [threat_level |-> cl.threat_level,
       confidence_score |-> threat_score,
       action_taken |-> cl.action_taken,
       categories |-> withPhones.detected_threats,
       message |-> "text " \o cl.threat_level,
       metadata |-> [risk_factors |-> withPhones.risk_factors,
                     urls_found |-> Len(c.urls),
                     phones_found |-> Len(c.phones),
                     text_length |-> c.text_length]]

\* a URL scorer without the length check
analyze_url_any_length(c) ==
  LET s1 == FAddTimes(0, F(4), c.domains)
      s2 == IF c.ip THEN FAdd(s1, F(5)) ELSE s1
      s3 == FAddTimes(s2, F(3), c.url_patterns)
      s5 == IF c.subdomain_count > 3 THEN FAdd(s3, F(3)) ELSE s3
      threat_score == FMin(s5, F(10))
      cl == Classify(threat_score, F(8), F(5))
  IN  [threat_level |-> cl.threat_level,
       confidence_score |-> threat_score,
       action_taken |-> cl.action_taken,
       categories |-> IF threat_score > F(5) THEN <<"malicious_url">> ELSE <<>>,
       message |-> "url " \o cl.threat_level,
       metadata |-> [risk_factors |-> <<>>,
                     url_length |-> c.text_length,
                     subdomain_count |-> c.subdomain_count]]

analyze_url(c) ==
  LET s1 == FAddTimes(0, F(4), c.domains)
      s2 == IF c.ip THEN FAdd(s1, F(5)) ELSE s1
      s3 == FAddTimes(s2, F(3), c.url_patterns)
      s4 == IF c.text_length > 200 THEN FAdd(s3, F(2)) ELSE s3
      s5 == IF c.subdomain_count > 3 THEN FAdd(s4, F(3)) ELSE s4
      threat_score == FMin(s5, F(10))
      cl == Classify(threat_score, F(8), F(5))
  IN  [threat_level |-> cl.threat_level,
       confidence_score |-> threat_score,
       action_taken |-> cl.action_taken,
       categories |-> IF threat_score > F(5) THEN <<"malicious_url">> ELSE <<>>,
       message |-> "url " \o cl.threat_level,
       metadata |-> [risk_factors |->
                        Repeat("URL shortener detected", c.domains)
                        \o (IF c.ip THEN <<"Direct IP address used instead of domain">> ELSE <<>>)
                        \o Repeat("Suspicious URL pattern", c.url_patterns)
                        \o (IF c.text_length > 200 THEN <<"Unusually long URL">> ELSE <<>>)
                        \o (IF c.subdomain_count > 3 THEN <<"Multiple subdomains detected">> ELSE <<>>),
                     url_length |-> c.text_length,
                     subdomain_count |-> c.subdomain_count]]

\* a phone scorer without the premium-rate check
analyze_phone_no_premium(c) ==
  LET s1 == FAddTimes(0, F(8), c.spam_number)
      s2 == IF c.phone_length < 10 THEN FAdd(s1, F(4)) ELSE s1
      s3 == IF c.digits <= 2 THEN FAdd(s2, F(6)) ELSE s2
      threat_score == FMin(s3, F(10))
      cl == Classify(threat_score, F(8), F(4))
  IN  [threat_level |-> cl.threat_level,
       confidence_score |-> threat_score,
       action_taken |-> cl.action_taken,
       categories |-> IF threat_score > F(4) THEN <<"spam_call">> ELSE <<>>,
       message |-> "phone " \o cl.threat_level,
       metadata |-> [risk_factors |-> <<>>,
                     clean_phone |-> c.id,
                     phone_length |-> c.phone_length]]

analyze_phone(c) ==
  LET s1 == FAddTimes(0, F(8), c.spam_number)
      s2 == IF c.phone_length < 10 THEN FAdd(s1, F(4)) ELSE s1
      s3 == IF c.digits <= 2 THEN FAdd(s2, F(6)) ELSE s2
      s4 == FAddTimes(s3, F(5), c.premium)
      threat_score == FMin(s4, F(10))
      cl == Classify(threat_score, F(8), F(4))
  IN  [threat_level |-> cl.threat_level,
       confidence_score |-> threat_score,
       action_taken |-> cl.action_taken,
       categories |-> IF threat_score > F(4) THEN <<"spam_call">> ELSE <<>>,
       message |-> "phone " \o cl.threat_level,
       metadata |-> [risk_factors |->
                        Repeat("Known spam number pattern", c.spam_number)
                        \o (IF c.phone_length < 10 THEN <<"Invalid phone number format">> ELSE <<>>)
                        \o (IF c.digits <= 2 THEN <<"Suspicious repeated digits">> ELSE <<>>)
                        \o Repeat("Premium rate number detected", c.premium),
                     clean_phone |-> c.id,
                     phone_length |-> c.phone_length]]

analyze_email(c) ==
  LET result == analyze_text(c)
  IN  IF result.threat_level # "safe"
      THEN [result EXCEPT !.categories = Append(@, "email_threat")]
      ELSE result

\* an exception that leaves the engine, with what raised it
Raised(cause) == [raised |-> cause]

\* analyze_content without its try/except
engine_analyze_content_unguarded(content_type, c, fault) ==
  IF fault = "none"
  THEN CASE content_type = "message" -> analyze_text(c)
         [] content_type = "url" -> analyze_url(c)
         [] content_type = "call" -> analyze_phone(c)
         [] content_type = "email" -> analyze_email(c)
         [] OTHER -> [threat_level |-> "safe", confidence_score |-> 0,
                      action_taken |-> "allowed", categories |-> <<>>,
                      message |-> "analysis not supported yet",
                      metadata |-> [content_type |-> content_type]]
  ELSE Raised(fault)

\* ProtectionEngine.analyze_content on an engine that is not initialized.
\* fault = "init" is an exception in initialize(), which runs before the try
\* block; fault = "scorer" is an exception inside the selected scorer
engine_analyze_content(content_type, c, fault) ==
  IF fault = "init" THEN Raised("init")
  ELSE IF content_type \in {"message", "url", "call", "email"} /\ fault = "scorer"
  THEN [threat_level |-> "safe", confidence_score |-> 0, action_taken |-> "allowed",
        categories |-> <<>>,
        message |-> "Analysis failed, content allowed by default",
        metadata |-> [error |-> "scorer fault"]]
  ELSE CASE content_type = "message" -> analyze_text(c)
         [] content_type = "url" -> analyze_url(c)
         [] content_type = "call" -> analyze_phone(c)
         [] content_type = "email" -> analyze_email(c)
         [] OTHER -> [threat_level |-> "safe", confidence_score |-> 0,
                      action_taken |-> "allowed", categories |-> <<>>,
                      message |-> "analysis not supported yet",
                      metadata |-> [content_type |-> content_type]]

\* an image scorer that flags from 5 MB on
analyze_image_from_limit(c) ==
  IF c.size >= 5 * MB
  THEN [threat_level |-> "suspicious", confidence_score |-> F(3),
        action_taken |-> "flagged", categories |-> <<"large_file">>,
        message |-> "Large image file flagged",
        metadata |-> [file_size |-> c.size, file_hash |-> c.id]]
  ELSE [threat_level |-> "safe", confidence_score |-> 0,
        action_taken |-> "allowed", categories |-> <<>>,
        message |-> "Image appears safe",
        metadata |-> [file_size |-> c.size, file_hash |-> c.id]]

analyze_image(c) ==
  IF c.size > 5 * MB
  THEN [threat_level |-> "suspicious", confidence_score |-> F(3),
        action_taken |-> "flagged", categories |-> <<"large_file">>,
        message |-> "Large image file flagged",
        metadata |-> [file_size |-> c.size, file_hash |-> c.id]]
  ELSE [threat_level |-> "safe", confidence_score |-> 0,
        action_taken |-> "allowed", categories |-> <<>>,
        message |-> "Image appears safe",
        metadata |-> [file_size |-> c.size, file_hash |-> c.id]]

\* _analyze_audio and _analyze_video
analyze_media(c, family) ==
  [threat_level |-> "safe", confidence_score |-> 0,
   action_taken |-> "allowed", categories |-> <<>>,
   message |-> family \o " file appears safe",
   metadata |-> [file_size |-> c.size, file_hash |-> c.id]]

analyze_generic_file(c, mime) ==
  IF mime \in {"application/x-executable", "application/x-msdownload"}
  THEN [threat_level |-> "blocked", confidence_score |-> F(9),
        action_taken |-> "blocked", categories |-> <<"executable_file">>,
        message |-> "Executable file blocked",
        metadata |-> [file_size |-> c.size, file_hash |-> c.id]]
  ELSE [threat_level |-> "safe", confidence_score |-> 0,
        action_taken |-> "allowed", categories |-> <<>>,
        message |-> "File appears safe",
        metadata |-> [file_size |-> c.size, file_hash |-> c.id, content_type |-> mime]]

\* mime.startswith(family + "/") for the mime types of the model
MimeFamily(mime) ==
  CASE mime = "image/png" -> "image"
    [] mime = "audio/mpeg" -> "audio"
    [] mime = "video/mp4" -> "video"
    [] OTHER -> "file"

\* ProtectionEngine.analyze_file, which does not initialize the engine; the
\* fail-open result has no "categories"
engine_analyze_file(c, mime, fault) ==
  IF fault = "scorer"
  THEN [threat_level |-> "safe", confidence_score |-> 0, action_taken |-> "allowed",
        categories |-> <<>>,
        message |-> "File analysis failed, allowed by default",
        metadata |-> [error |-> "scorer fault"]]
  ELSE CASE MimeFamily(mime) = "image" -> analyze_image(c)
         [] MimeFamily(mime) = "audio" -> analyze_media(c, "Audio")
         [] MimeFamily(mime) = "video" -> analyze_media(c, "Video")
         [] OTHER -> analyze_generic_file(c, mime)

\* ------------------------------------------------------------------------
\* The service: settings table, analysis log, request handlers
\*
\* A handler runs as the code between its awaits.  The reads of a handler
\* (settings lookup, duplicate lookup) and the engine call, which touches no
\* shared state, are one step; the commit is a second step, so that other
\* requests may commit between a handler's reads and its write.  A request
\* lasts far less than an hour: the clock moves between requests.
\* ------------------------------------------------------------------------

\* rows the analysis log may hold
MaxLog == 2

\* timedelta(hours=24) of the duplicate lookup
DedupWindowHours == 24

\* the clock stops one hour past the window
MaxTime == DedupWindowHours + 1

\* file.size limit of analyze_file
MaxUploadBytes == 10 * MB

valid_apps == {"whatsapp", "phone", "sms", "email", "telegram"}

SupportedTypes == {"message", "url", "call", "email"}

Contents == {PhoneNumber, PhishingText, IpUrl, LargeBlob, HugeBlob}

ContentById(id) == CHOOSE c \in Contents : c.id = id

\* the requests of the model
Users == {"alice"}

\* the apps of analysis requests
Apps == {"sms"}

\* the apps of toggle requests: a valid name and one that is not
ToggleApps == {"sms", "fax"}

ContentTypes == {"message", "call", "image"}

TextContents == {PhoneNumber}

FileContents == {PhoneNumber, HugeBlob}

Mimes == {"image/png", "application/x-msdownload"}

\* what may go wrong while a request is served: the duplicate query fails
\* ("store"), initialize() raises ("init"), the selected scorer raises
\* ("scorer")
Faults == {"none", "store", "init", "scorer"}

FileFaults == {"none", "scorer"}

\* concurrently served requests
Procs == {1, 2}

\* a Text column: NULL, or the JSON text of a value
Null == [null |-> TRUE]

json_dumps(v) == [json |-> v]

json_loads(col) == col.json

\* "json.loads(col) if col else <default>"
LoadsOr(col, default) == IF col = Null THEN default ELSE json_loads(col)

VARIABLES
  settings,   \* app_settings rows, in insertion order
  log,        \* protection_logs rows, in insertion order
  now,        \* the clock, in hours
  req,        \* per process: the request being served
  out,        \* the response sent by the latest step, if it sent one
  mark        \* an earlier analyze response, kept for comparison with later
              \* ones (MarkOff: none is kept)

vars == <<settings, log, now, req, out, mark>>

Idle == [pc |-> "idle"]

NoResponse == [op |-> "none"]

MarkOff == [op |-> "off"]

\* an empty database and no request in progress
Init ==
  /\ settings = <<>>
  /\ log = <<>>
  /\ now = 0
  /\ req = [p \in Procs |-> Idle]
  /\ out = NoResponse
  /\ mark = MarkOff

\* the same, with the first suitable analyze response to be kept in mark
InitSeq ==
  /\ settings = <<>>
  /\ log = <<>>
  /\ now = 0
  /\ req = [p \in Procs |-> Idle]
  /\ out = NoResponse
  /\ mark = NoResponse

\* requests that have read and will commit
Committing(pcs) == Cardinality({p \in Procs : req[p].pc \in pcs})

\* the latest response has left the server
Quiet == out = NoResponse

\* a new request goes to the first idle process
Accepts(p) ==
  /\ Quiet
  /\ req[p].pc = "idle"
  /\ \A q \in Procs : q < p => req[q].pc # "idle"

\* select(AppSetting).where(user_id == u, app_name == a): the matching rows
SettingRows(u, a) ==
  {i \in 1..Len(settings) : settings[i].user_id = u /\ settings[i].app_name = a}

\* a gate that closes only when the setting is missing
GateClosed_missing_only(rows) == rows = {}

\* "if not app_setting or not app_setting.is_enabled" on the rows found
GateClosed(rows) == rows = {} \/ \A i \in rows : ~settings[i].is_enabled

\* a duplicate lookup whose window excludes the row that is exactly
\* DedupWindowHours old
DedupRows_exclusive(u, content_hash, t) ==
  {i \in 1..Len(log) : /\ log[i].user_id = u
                       /\ log[i].content_hash = content_hash
                       /\ log[i].created_at > t - DedupWindowHours}

\* a duplicate lookup that does not filter on the user
DedupRows_any_user(u, content_hash, t) ==
  {i \in 1..Len(log) : /\ log[i].content_hash = content_hash
                       /\ log[i].created_at >= t - DedupWindowHours}

\* the rows of the duplicate lookup of analyze_content at time t
DedupRows(u, content_hash, t) ==
  {i \in 1..Len(log) : /\ log[i].user_id = u
                       /\ log[i].content_hash = content_hash
                       /\ log[i].created_at >= t - DedupWindowHours}

\* a request as the handler receives it, with the log length it saw
NewRequest(op, u, a, type, c, arg) ==
  [op |-> op, user |-> u, app |-> a, type |-> type, content |-> c,
   arg |-> arg, t |-> now, logLen |-> Len(log)]

\* what a handler did with engines on the way to a response of this kind:
\* analyze_content and analyze_file build a ProtectionEngine() when they
\* reach the engine call, and analyze_content of a new engine runs
\* initialize(); the engine of app.state is used by no handler
EngineUse(op, kind) ==
  IF op = "analyze"
     /\ kind \in {"scored", "unsupported", "fail_open", "engine_error", "aborted"}
  THEN [constructed |-> TRUE, initialize |-> TRUE]
  ELSE IF op = "file" /\ kind \in {"scored", "fail_open", "aborted"}
  THEN [constructed |-> TRUE, initialize |-> FALSE]
  ELSE [constructed |-> FALSE, initialize |-> FALSE]

\* the response to request r, recorded with what the handler did: whether a
\* scorer ran, the log row served or created, and its use of engines
Response(r, kind, result, scored, entry) ==
  [op |-> r.op, user |-> r.user, app |-> r.app, type |-> r.type,
   content |-> r.content, arg |-> r.arg, t |-> r.t, logLen |-> r.logLen,
   kind |-> kind, result |-> result, scored |-> scored, entry |-> entry,
   engine |-> EngineUse(r.op, kind)]

\* the kinds of response that carry an assessment
Assessed == {"gated", "cached", "scored", "unsupported", "fail_open"}

\* a step that sends response resp
Send(resp) == out' = resp /\ mark' = mark

\* a step that sends no response
Silent == out' = NoResponse /\ mark' = mark

\* no assessment: an HTTP error or a plain acknowledgement
NoResult == [status |-> "none"]

GatedResponse ==
  [threat_level |-> "safe", confidence_score |-> 0, action_taken |-> "allowed",
   categories |-> <<>>, message |-> "Protection not enabled", metadata |-> <<>>]

\* the file handlers return and store no "categories"
NoCategories == <<>>

\* a cached response that drops the stored metadata
CachedResponse_no_metadata(row) ==
  [threat_level |-> row.threat_level,
   confidence_score |-> row.confidence_score,
   action_taken |-> row.action_taken,
   categories |-> LoadsOr(row.threat_categories, <<>>),
   message |-> "Cached analysis result",
   metadata |-> <<>>]

\* the ProtectionResponse built from a stored log row
CachedResponse(row) ==
  [threat_level |-> row.threat_level,
   confidence_score |-> row.confidence_score,
   action_taken |-> row.action_taken,
   categories |-> LoadsOr(row.threat_categories, <<>>),
   message |-> "Cached analysis result",
   metadata |-> LoadsOr(row.metadata, <<>>)]

\* ---- toggle_app_protection ----

\* validation and the find-or-create lookup
ToggleSelect(p, u, a, enabled) ==
  /\ Accepts(p)
  /\ LET r == NewRequest("toggle", u, a, "none", "none", enabled)
         rows == SettingRows(u, a)
     IN  IF a \notin valid_apps
         THEN /\ Send(Response(r, "invalid_app", NoResult, FALSE, 0))
              /\ UNCHANGED req
         ELSE IF Cardinality(rows) > 1
         THEN /\ Send(Response(r, "settings_error", NoResult, FALSE, 0))
              /\ UNCHANGED req
         ELSE /\ req' = [req EXCEPT ![p] =
                    r @@ [pc |-> IF rows = {} THEN "toggle_insert" ELSE "toggle_update",
                          row |-> IF rows = {} THEN 0 ELSE CHOOSE i \in rows : TRUE]]
              /\ Silent
  /\ UNCHANGED <<settings, log, now>>

\* db.add or the attribute update, then commit
ToggleCommit(p) ==
  /\ Quiet
  /\ req[p].pc \in {"toggle_insert", "toggle_update"}
  /\ LET r == req[p]
     IN  /\ settings' =
               IF r.row = 0
               THEN Append(settings, [user_id |-> r.user, app_name |-> r.app,
                                      is_enabled |-> r.arg,
                                      protection_level |-> "medium",
                                      auto_block |-> TRUE, notifications |-> TRUE])
               ELSE [settings EXCEPT ![r.row].is_enabled = r.arg]
         /\ Send(Response(r, "toggled", NoResult, FALSE, 0))
  /\ req' = [req EXCEPT ![p] = Idle]
  /\ UNCHANGED <<log, now>>

\* ---- analyze_content ----

\* an engine whose result depends on the requests in flight
engine_analyze_content_racy(content_type, c, fault) ==
  IF Committing({"persist"}) > 0
  THEN engine_analyze_content("image", c, fault)
  ELSE engine_analyze_content(content_type, c, fault)

\* the engine call of analyze_content: a new ProtectionEngine per request
EngineCall(content_type, c, fault) == engine_analyze_content(content_type, c, fault)

\* which branch of engine.analyze_content produced the result
ScoreKind(type, faulted) ==
  IF type \notin SupportedTypes THEN "unsupported"
  ELSE IF faulted THEN "fail_open"
  ELSE "scored"

\* the setting lookup, the duplicate lookup and the engine call, under the
\* fault of this request.  scalar_one_or_none() raises on more than one
\* setting row; an exception that leaves the handler is answered with status
\* 500.  The duplicate query has limit(1) and no ORDER BY: any matching row
\* may be the one returned
AnalyzeLookup(p, u, type, c, a, fault) ==
  /\ Accepts(p)
  /\ LET r == NewRequest("analyze", u, a, type, c.id, "none")
         rows == SettingRows(u, a)
         dups == DedupRows(u, calculate_content_hash(c), now)
         analysis_result == EngineCall(type, c, fault)
     IN  IF Cardinality(rows) > 1
         THEN Send(Response(r, "settings_error", NoResult, FALSE, 0)) /\ UNCHANGED req
         ELSE IF GateClosed(rows)
         THEN Send(Response(r, "gated", GatedResponse, FALSE, 0)) /\ UNCHANGED req
         ELSE IF fault = "store"
         THEN Send(Response(r, "store_error", NoResult, FALSE, 0)) /\ UNCHANGED req
         ELSE IF dups # {}
         THEN /\ \E i \in dups : Send(Response(r, "cached", CachedResponse(log[i]), FALSE, i))
              /\ UNCHANGED req
         ELSE IF "raised" \in DOMAIN analysis_result
         THEN Send(Response(r, "engine_error", analysis_result, FALSE, 0)) /\ UNCHANGED req
         ELSE /\ Len(log) + Committing({"persist", "file_persist"}) < MaxLog
              /\ req' = [req EXCEPT ![p] =
                    r @@ [pc |-> "persist", result |-> analysis_result,
                          faulted |-> (fault = "scorer")]]
              /\ Silent
  /\ UNCHANGED <<settings, log, now>>

\* the log row is added and committed, the result returned
AnalyzePersist(p) ==
  /\ Quiet
  /\ req[p].pc = "persist"
  /\ LET r == req[p]
         res == r.result
     IN  /\ log' = Append(log,
                [user_id |-> r.user, app_name |-> r.app, content_type |-> r.type,
                 content_hash |-> calculate_content_hash(ContentById(r.content)),
                 threat_level |-> res.threat_level,
                 confidence_score |-> res.confidence_score,
                 threat_categories |-> json_dumps(res.categories),
                 action_taken |-> res.action_taken,
                 metadata |-> json_dumps(res.metadata),
                 created_at |-> now])
         /\ Send(Response(r, ScoreKind(r.type, r.faulted), res,
                          r.type \in SupportedTypes, Len(log) + 1))
  /\ req' = [req EXCEPT ![p] = Idle]
  /\ UNCHANGED <<settings, now>>

\* ---- analyze_file ----

\* the size check, the setting lookup, file.read() and the engine call
FileLookup(p, u, c, mime, a, fault) ==
  /\ Accepts(p)
  /\ LET r == NewRequest("file", u, a, MimeFamily(mime), c.id, mime)
         rows == SettingRows(u, a)
     IN  IF c.size > MaxUploadBytes
         THEN Send(Response(r, "too_large", NoResult, FALSE, 0)) /\ UNCHANGED req
         ELSE IF Cardinality(rows) > 1
         THEN Send(Response(r, "settings_error", NoResult, FALSE, 0)) /\ UNCHANGED req
         ELSE IF GateClosed(rows)
         THEN /\ Send(Response(r, "gated",
                               [GatedResponse EXCEPT !.categories = NoCategories],
                               FALSE, 0))
              /\ UNCHANGED req
         ELSE /\ Len(log) + Committing({"persist", "file_persist"}) < MaxLog
              /\ req' = [req EXCEPT ![p] =
                    r @@ [pc |-> "file_persist",
                          result |-> engine_analyze_file(c, mime, fault),
                          faulted |-> (fault = "scorer")]]
              /\ Silent
  /\ UNCHANGED <<settings, log, now>>

\* the log row is added and committed, the result returned
FilePersist(p) ==
  /\ Quiet
  /\ req[p].pc = "file_persist"
  /\ LET r == req[p]
         res == r.result
     IN  /\ log' = Append(log,
                [user_id |-> r.user, app_name |-> r.app, content_type |-> r.type,
                 content_hash |-> calculate_content_hash(ContentById(r.content)),
                 threat_level |-> res.threat_level,
                 confidence_score |-> res.confidence_score,
                 threat_categories |-> Null,
                 action_taken |-> res.action_taken,
                 metadata |-> json_dumps([filename |-> "upload",
                                          content_type |-> r.arg,
                                          file_size |-> ContentById(r.content).size]),
                 created_at |-> now])
         /\ Send(Response(r, IF r.faulted THEN "fail_open" ELSE "scored", res,
                          TRUE, Len(log) + 1))
  /\ req' = [req EXCEPT ![p] = Idle]
  /\ UNCHANGED <<settings, now>>

\* ---- get_protection_history ----

\* no filter given
NoFilter == "any"

\* ProtectionLogResponse of log row i
ProtectionLogResponse(i) ==
  [id |-> i, app_name |-> log[i].app_name, content_type |-> log[i].content_type,
   threat_level |-> log[i].threat_level,
   confidence_score |-> log[i].confidence_score,
   action_taken |-> log[i].action_taken, created_at |-> log[i].created_at]

\* the rows of the history query before ordering and limit
HistoryRows(u, app, threat_level) ==
  {i \in 1..Len(log) : /\ log[i].user_id = u
                       /\ (app = NoFilter \/ log[i].app_name = app)
                       /\ (threat_level = NoFilter \/ log[i].threat_level = threat_level)}

\* order_by(created_at.desc()).limit(limit): the row sequences the query may
\* return; rows of equal created_at come in any order
HistoryResults(u, app, threat_level, limit) ==
  LET rows == HistoryRows(u, app, threat_level)
      n == IF limit < Cardinality(rows) THEN limit ELSE Cardinality(rows)
  IN  {s \in [1..n -> rows] :
         /\ \A i, j \in 1..n : i < j =>
               s[i] # s[j] /\ log[s[i]].created_at >= log[s[j]].created_at
         /\ \A r \in rows : (\A i \in 1..n : s[i] # r) =>
               \A i \in 1..n : log[s[i]].created_at >= log[r].created_at}

GetHistory(p, u, app, threat_level, limit) ==
  /\ Accepts(p)
  /\ LET r == NewRequest("history", u, app, "none", "none",
                         [threat_level |-> threat_level, limit |-> limit])
     IN  \E s \in HistoryResults(u, app, threat_level, limit) :
            Send(Response(r, "history",
                          [entries |-> [i \in DOMAIN s |-> ProtectionLogResponse(s[i])]],
                          FALSE, 0))
  /\ UNCHANGED <<settings, log, now, req>>

\* ---- get_protection_stats ----

\* timedelta of the period; any other value is 24 hours
PeriodHours(period) ==
  CASE period = "7d" -> 7 * 24
    [] period = "30d" -> 30 * 24
    [] OTHER -> 24

\* the four counting queries, which run before the breakdown query is built
StatsCounts(u, period, t) ==
  LET rows == {i \in 1..Len(log) : /\ log[i].user_id = u
                                   /\ log[i].created_at >= t - PeriodHours(period)}
  IN  [total_protected |-> Cardinality(rows),
       threats_blocked |-> Cardinality({i \in rows : log[i].threat_level = "blocked"}),
       suspicious_items |-> Cardinality({i \in rows : log[i].threat_level = "suspicious"}),
       apps_protected |-> Cardinality({settings[i].app_name : i \in
                             {j \in 1..Len(settings) : /\ settings[j].user_id = u
                                                       /\ settings[j].is_enabled}})]

\* func.case((condition, 1), else_=None): func builds a generic SQL function
\* and accepts no keyword else_, so building the breakdown query raises
\* TypeError on every call
BreakdownQuery(u, period, t) == Raised("func.case")

\* the handler: the counts are computed, then the breakdown query raises
GetStats(p, u, period) ==
  /\ Accepts(p)
  /\ LET r == NewRequest("stats", u, "none", "none", "none", period)
         counts == StatsCounts(u, period, now)
         breakdown == BreakdownQuery(u, period, now)
     IN  IF "raised" \in DOMAIN breakdown
         THEN Send(Response(r, "query_error", breakdown, FALSE, 0))
         ELSE Send(Response(r, "stats", counts @@ [breakdown |-> breakdown], FALSE, 0))
  /\ UNCHANGED <<settings, log, now, req>>

\* ---- get_app_settings ----

default_apps == {"whatsapp", "phone", "sms", "email", "telegram"}

DefaultSetting ==
  [enabled |-> FALSE, protection_level |-> "medium",
   auto_block |-> TRUE, notifications |-> TRUE]

\* the mappings get_app_settings may return: the defaults, overwritten by the
\* user's rows in the order the query returns them (no ORDER BY: of several
\* rows for one app any may come last)
AppSettingsResults(u) ==
  LET stored == {a \in default_apps : SettingRows(u, a) # {}}
      last == {f \in [stored -> 1..Len(settings)] :
                 \A a \in stored : f[a] \in SettingRows(u, a)}
  IN  {[a \in default_apps |->
          IF a \in stored
          THEN [enabled |-> settings[f[a]].is_enabled,
                protection_level |-> settings[f[a]].protection_level,
                auto_block |-> settings[f[a]].auto_block,
                notifications |-> settings[f[a]].notifications]
          ELSE DefaultSetting] : f \in last}

\* a get_app_settings that stores the defaults it reports
GetAppSettings_storing_defaults(p, u) ==
  /\ Accepts(p)
  /\ LET r == NewRequest("apps", u, "none", "none", "none", "none")
     IN  \E m \in AppSettingsResults(u) :
            Send(Response(r, "apps", m, FALSE, 0))
  /\ settings' = settings \o
        <<[user_id |-> u, app_name |-> "whatsapp", is_enabled |-> FALSE,
           protection_level |-> "medium", auto_block |-> TRUE,
           notifications |-> TRUE]>>
  /\ UNCHANGED <<log, now, req>>

GetAppSettings(p, u) ==
  /\ Accepts(p)
  /\ LET r == NewRequest("apps", u, "none", "none", "none", "none")
     IN  \E m \in AppSettingsResults(u) :
            Send(Response(r, "apps", m, FALSE, 0))
  /\ UNCHANGED <<settings, log, now, req>>

\* ---- cancellation ----

\* a cancellation that leaves a row of the request behind
Abort_persisting(p) ==
  /\ Quiet
  /\ req[p].pc # "idle"
  /\ req' = [req EXCEPT ![p] = Idle]
  /\ Send(Response(req[p], "aborted", NoResult, FALSE, 0))
  /\ log' = Append(log,
              [user_id |-> req[p].user, app_name |-> req[p].app,
               content_type |-> req[p].type, content_hash |-> req[p].content,
               threat_level |-> "safe", confidence_score |-> 0,
               threat_categories |-> Null, action_taken |-> "allowed",
               metadata |-> Null, created_at |-> now])
  /\ UNCHANGED <<settings, now>>

\* the caller aborts a request between its reads and its commit: the task is
\* cancelled at an await and the session is closed without a commit.  The
\* abort is recorded in out
Abort(p) ==
  /\ Quiet
  /\ req[p].pc # "idle"
  /\ req' = [req EXCEPT ![p] = Idle]
  /\ Send(Response(req[p], "aborted", NoResult, FALSE, 0))
  /\ UNCHANGED <<settings, log, now>>

\* ---- time ----

\* the clock jumps one window length and then advances hour by hour: a row
\* is looked up when it is 0, 1, 24 or 25 hours old
TickHours == IF now < DedupWindowHours THEN DedupWindowHours ELSE 1

Tick ==
  /\ Quiet
  /\ \A p \in Procs : req[p].pc = "idle"
  /\ now + TickHours <= MaxTime
  /\ now' = now + TickHours
  /\ Silent
  /\ UNCHANGED <<settings, log, req>>

\* ---- the response reaches the caller ----

\* the first analyze response that passed the gate may be kept in mark
Deliver ==
  /\ ~Quiet
  /\ out' = NoResponse
  /\ \/ mark' = mark
     \/ /\ mark = NoResponse
        /\ out.op = "analyze"
        /\ out.kind \in Assessed \ {"gated"}
        /\ mark' = out
  /\ UNCHANGED <<settings, log, now, req>>

\* the steps of the processes in P
Step(P) ==
  \/ \E p \in P, u \in Users, a \in ToggleApps, enabled \in BOOLEAN :
       ToggleSelect(p, u, a, enabled)
  \/ \E p \in P : ToggleCommit(p)
  \/ \E p \in P, u \in Users, type \in ContentTypes, c \in TextContents, a \in Apps,
        fault \in Faults :
       AnalyzeLookup(p, u, type, c, a, fault)
  \/ \E p \in P : AnalyzePersist(p)
  \/ \E p \in P, u \in Users, c \in FileContents, mime \in Mimes, a \in Apps,
        fault \in FileFaults :
       FileLookup(p, u, c, mime, a, fault)
  \/ \E p \in P : FilePersist(p)
  \/ Tick
  \/ Deliver

\* requests served concurrently
Next == Step(Procs)

Spec == Init /\ [][Next]_vars

\* requests served one after the other
NextSeq == Step({1})

SpecSeq == InitSeq /\ [][NextSeq]_vars

\* the filters, limits and periods of the read requests
HistoryApps == {NoFilter, "sms"}

HistoryLevels == {NoFilter, "blocked"}

HistoryLimits == {1, 50}

Periods == {"24h", "7d", "30d", "1y"}

\* the read requests of the processes in P
Reads(P) ==
  \/ \E p \in P, u \in Users, app \in HistoryApps, threat_level \in HistoryLevels,
        limit \in HistoryLimits :
       GetHistory(p, u, app, threat_level, limit)
  \/ \E p \in P, u \in Users, period \in Periods : GetStats(p, u, period)
  \/ \E p \in P, u \in Users : GetAppSettings(p, u)

\* every operation of the API, served one request at a time, with requests
\* that may be aborted
NextOps ==
  \/ Step({1})
  \/ Reads({1})
  \/ Abort(1)

SpecOps == Init /\ [][NextOps]_vars

\* two users who submit the same content to the same app
TwoUsers == {"alice", "bob"}

\* the operations of two users, served one request at a time
NextTwoUsers ==
  \/ \E u \in TwoUsers, enabled \in BOOLEAN : ToggleSelect(1, u, "sms", enabled)
  \/ ToggleCommit(1)
  \/ \E u \in TwoUsers, type \in {"message", "call"} :
       AnalyzeLookup(1, u, type, PhoneNumber, "sms", "none")
  \/ AnalyzePersist(1)
  \/ \E u \in TwoUsers : FileLookup(1, u, PhoneNumber, "application/x-msdownload", "sms", "none")
  \/ FilePersist(1)
  \/ \E u \in TwoUsers, threat_level \in HistoryLevels :
       GetHistory(1, u, NoFilter, threat_level, 50)
  \/ \E u \in TwoUsers : GetStats(1, u, "24h")
  \/ \E u \in TwoUsers : GetAppSettings(1, u)
  \/ Tick
  \/ Deliver

SpecTwoUsers == Init /\ [][NextTwoUsers]_vars

\* ---- the engine called directly, on any content ----

\* patterns of one category, and urgency words, that a text may match
MaxMatches == 3

MaxUrgency == MaxMatches + 1

\* URLs and phone numbers found in a text, and shortener domains in one URL
MaxUrls == 1

MaxPhones == 1

MaxDomains == MaxUrls + 1

\* the sequences over S of length at most n
SeqsUpTo(S, n) == UNION {[1..k -> S] : k \in 0..n}

\* a text by what the patterns of _analyze_text find in it
TextInput(m, g, us, ps) ==
  [id |-> "text", size |-> 100, text_length |-> 100,
   matches |-> m, urgency |-> g, urls |-> us, phones |-> ps,
   domains |-> 0, ip |-> FALSE, url_patterns |-> 0, subdomain_count |-> 0,
   spam_number |-> 0, phone_length |-> 0, digits |-> 0, premium |-> 0]

\* a URL by what the checks of _analyze_url find in it
UrlInput(n, d, ip, k, dots) ==
  [id |-> "url", size |-> n, text_length |-> n,
   matches |-> [phishing |-> 0, fraud |-> 0, spam |-> 0, malware |-> 0],
   urgency |-> 0, urls |-> <<0>>, phones |-> <<>>,
   domains |-> d, ip |-> ip, url_patterns |-> k, subdomain_count |-> dots,
   spam_number |-> 0, phone_length |-> 0, digits |-> 0, premium |-> 0]

\* a phone number by what the checks of _analyze_phone find in it
PhoneInput(n, sp, dg, pr) ==
  [id |-> "phone", size |-> n, text_length |-> n,
   matches |-> [phishing |-> 0, fraud |-> 0, spam |-> 0, malware |-> 0],
   urgency |-> 0, urls |-> <<>>, phones |-> <<>>,
   domains |-> 0, ip |-> FALSE, url_patterns |-> 0, subdomain_count |-> 0,
   spam_number |-> sp, phone_length |-> n, digits |-> dg, premium |-> pr]

\* payloads of analyze_file: two different payloads of 11 bytes, one of
\* exactly 5 MB, one a byte longer, one of 6 MB
FileInputs ==
  {PhoneNumber,
   [PhoneNumber EXCEPT !.id = "other_bytes"],
   [LargeBlob EXCEPT !.id = "at_limit", !.size = 5 * MB, !.text_length = 5 * MB],
   [LargeBlob EXCEPT !.id = "over_limit", !.size = 5 * MB + 1, !.text_length = 5 * MB + 1],
   LargeBlob}

\* declared mime types: one of each family, the two executable types, and
\* one other
FileMimes ==
  {"image/png", "audio/mpeg", "video/mp4", "application/x-executable",
   "application/x-msdownload", "application/pdf"}

\* a call of ProtectionEngine.analyze_content or analyze_file in progress
EngineCalled(entry, type, c, fault) ==
  req = [p \in Procs |->
           IF p = 1
           THEN [pc |-> "engine", entry |-> entry, type |-> type, c |-> c, fault |-> fault]
           ELSE Idle]

\* the calls of the engine: any text as a message, texts without URLs and
\* phone numbers as an email, any URL, any phone number, and each entry point
\* on one content under each fault.  A bare-IP host has three dots or more.
\* The spam patterns are four whole numbers
\* of ten digits or more and the premium patterns three prefixes with three
\* different digits: a number matches at most one pattern of each list, and
\* never one of both
EngineCalls ==
  \/ \E m \in [{"phishing", "fraud", "spam", "malware"} -> 0..MaxMatches],
        g \in 0..MaxUrgency,
        us \in SeqsUpTo(0..MaxDomains, MaxUrls),
        ps \in SeqsUpTo(BOOLEAN, MaxPhones) :
       EngineCalled("analyze_content", "message", TextInput(m, g, us, ps), "none")
  \/ \E m \in [{"phishing", "fraud", "spam", "malware"} -> 0..MaxMatches],
        g \in 0..MaxUrgency :
       EngineCalled("analyze_content", "email", TextInput(m, g, <<>>, <<>>), "none")
  \/ \E n \in {17, 201}, d \in 0..MaxDomains, ip \in BOOLEAN, k \in 0..MaxMatches,
        dots \in {1, 3, 4} :
       /\ ip => dots >= 3
       /\ EngineCalled("analyze_content", "url", UrlInput(n, d, ip, k, dots), "none")
  \/ \E n \in {5, 11}, sp \in {0, 1}, dg \in {1, 5}, pr \in {0, 1} :
       /\ sp = 1 => n >= 10 /\ pr = 0
       /\ pr = 1 => dg > 2
       /\ EngineCalled("analyze_content", "call", PhoneInput(n, sp, dg, pr), "none")
  \/ \E type \in SupportedTypes \cup {"image"}, fault \in {"none", "scorer", "init"} :
       EngineCalled("analyze_content", type, PhoneNumber, fault)
  \/ \E mime \in FileMimes, c \in FileInputs, fault \in FileFaults :
       EngineCalled("analyze_file", mime, c, fault)

\* an empty database and one call of the engine in progress
InitEngine ==
  /\ settings = <<>>
  /\ log = <<>>
  /\ now = 0
  /\ EngineCalls
  /\ out = NoResponse
  /\ mark = MarkOff

\* the engine returns its result, or raises, to the caller
EngineReturn(p) ==
  /\ Quiet
  /\ req[p].pc = "engine"
  /\ LET call == req[p]
     IN  Send([op |-> "engine", entry |-> call.entry, type |-> call.type,
               content |-> call.c, fault |-> call.fault,
               result |-> IF call.entry = "analyze_content"
                          THEN engine_analyze_content(call.type, call.c, call.fault)
                          ELSE engine_analyze_file(call.c, call.type, call.fault)])
  /\ req' = [req EXCEPT ![p] = Idle]
  /\ UNCHANGED <<settings, log, now>>

\* one call of the engine on any content, then the service
NextEngine ==
  \/ EngineReturn(1)
  \/ Step({1})

SpecEngine == InitEngine /\ [][NextEngine]_vars

\* ------------------------------------------------------------------------
\* Properties
\* ------------------------------------------------------------------------

Hash(id) == calculate_content_hash(ContentById(id))

\* threat level, confidence and action of a result or of a log row
Verdict(x) == <<x.threat_level, x.confidence_score, x.action_taken>>

SafeDefault == <<"safe", 0, "allowed">>

\* response r answers an Analyze request that passed the gate with an
\* assessment
Answered(r) ==
  r.op = "analyze" /\ r.kind \in {"cached", "scored", "unsupported", "fail_open"}

\* among the first n log rows, those of user u and hash h that are at most
\* 24 hours old at time t
InWindow(u, h, t, n) ==
  {i \in 1..n : /\ log[i].user_id = u
                /\ log[i].content_hash = h
                /\ t - log[i].created_at <= 24}

\* log row e was written by analyze_content for the fingerprint of r
OwnFingerprint(e, r) ==
  /\ e.user_id = r.user
  /\ e.content_hash = Hash(r.content)
  /\ e.content_type = r.type
  /\ e.app_name = r.app
  /\ e.threat_categories # Null

SameFingerprint(a, b) ==
  a.user = b.user /\ a.content = b.content /\ a.type = b.type /\ a.app = b.app

\* the threshold table: level and action of a content type at a confidence
TableVerdict(type, conf) ==
  LET blockAt == CASE type \in {"message", "email"} -> 9000
                   [] type \in {"url", "call"} -> 8000
                   [] OTHER -> 10001
      flagAt == CASE type \in {"message", "email"} -> 6000
                  [] type = "url" -> 5000
                  [] type = "call" -> 4000
                  [] OTHER -> 10001
  IN  IF conf >= blockAt THEN <<"blocked", conf, "blocked">>
      ELSE IF conf >= flagAt THEN <<"suspicious", conf, "flagged">>
      ELSE <<"safe", conf, "allowed">>

\* C1: every Analyze response that carries an assessment has the threat
\* level and action of the threshold table for the request's content type at
\* the returned confidence, and a later Analyze response for the same
\* (contentType, content, app, user) as an earlier one has the same threat
\* level, confidence and action.
C1_TableAndDeterminism ==
  /\ (out.op = "analyze" /\ out.kind \in Assessed) =>
        Verdict(out.result) = TableVerdict(out.type, out.result.confidence_score)
  /\ (mark.op = "analyze" /\ out.op = "analyze" /\ out.kind \in Assessed
        /\ SameFingerprint(mark, out)) =>
        Verdict(out.result) = Verdict(mark.result)

\* a later Analyze response for the same user, content and app as the
\* response kept in mark
Again ==
  /\ mark.op = "analyze"
  /\ Answered(out)
  /\ out.user = mark.user /\ out.content = mark.content /\ out.app = mark.app

SameAssessment(a, b) ==
  /\ Verdict(a) = Verdict(b)
  /\ a.categories = b.categories
  /\ a.metadata = b.metadata

\* C2 as stated: a second Analyze of the same user, content and app, made
\* within 24 hours of the first with the app enabled at both, returns the
\* first response's level, confidence, action, categories and metadata,
\* runs no scorer, and the log holds exactly one entry for the content
\* (stated for content that only Analyze has logged).
C2_WithinWindowOfFirstCall ==
  (/\ Again
   /\ out.t - mark.t <= 24
   /\ \A i \in 1..Len(log) :
         log[i].content_hash = Hash(out.content) => log[i].threat_categories # Null) =>
     /\ SameAssessment(out.result, mark.result)
     /\ out.kind = "cached"
     /\ ~out.scored
     /\ Cardinality({i \in 1..Len(log) : /\ log[i].user_id = out.user
                                         /\ log[i].content_hash = Hash(out.content)}) = 1

\* C2 amended: when the log entry that the first call created or was served
\* from is, at the second call, the user's only entry for the content that
\* is at most 24 hours old, the second call is served from that entry with
\* the same level, confidence, action, categories and metadata, runs no
\* scorer and appends nothing.
C2_IdempotentWhileEntryFresh ==
  (Again /\ InWindow(out.user, Hash(out.content), out.t, out.logLen) = {mark.entry}) =>
     /\ out.kind = "cached"
     /\ out.entry = mark.entry
     /\ SameAssessment(out.result, mark.result)
     /\ ~out.scored
     /\ Len(log) = out.logLen
     /\ InWindow(out.user, Hash(out.content), out.t, Len(log)) = {mark.entry}

\* the first call scored a blocked verdict and the second call comes exactly
\* 24 hours later
C2_Witness ==
  /\ Again
  /\ InWindow(out.user, Hash(out.content), out.t, out.logLen) = {mark.entry}
  /\ mark.kind = "scored"
  /\ mark.result.threat_level = "blocked"
  /\ out.t - mark.t = 24

\* the setting of (u, a) is missing or disabled
SettingOff(u, a) ==
  LET rows == {i \in 1..Len(settings) :
                 settings[i].user_id = u /\ settings[i].app_name = a}
  IN  /\ Cardinality(rows) <= 1
      /\ \A i \in rows : settings[i].is_enabled = FALSE

\* this step receives an analysis request and answers it at once
AnsweredAtOnce ==
  /\ out = NoResponse
  /\ out' # NoResponse
  /\ out'.op \in {"analyze", "file"}
  /\ out'.kind # "too_large"
  /\ req' = req

\* this step receives an analysis request of process p and runs a scorer
ScoredBy(p) ==
  /\ req[p].pc = "idle"
  /\ req'[p].pc \in {"persist", "file_persist"}

C4_HitHasSameFingerprint ==
  (out.op = "analyze" /\ out.kind = "cached") => OwnFingerprint(log[out.entry], out)

\* C5: an Analyze request that finds an entry of its user and content hash
\* created at most 24 hours earlier is served from such an entry, without
\* scoring and without a new entry; one that finds only older entries, or
\* none, is scored and appends a new entry.
C5_DedupWindow ==
  Answered(out) =>
    LET fresh == InWindow(out.user, Hash(out.content), out.t, out.logLen)
    IN  IF fresh # {}
        THEN /\ out.kind = "cached"
             /\ out.entry \in fresh
             /\ ~out.scored
             /\ Len(log) = out.logLen
        ELSE /\ out.kind # "cached"
             /\ out.scored = (out.type \in {"message", "url", "call", "email"})
             /\ out.entry > out.logLen
             /\ out.entry = Len(log)
             /\ log[out.entry].user_id = out.user
             /\ log[out.entry].content_hash = Hash(out.content)
             /\ log[out.entry].created_at = out.t

\* an entry of the same user and content is 25 hours old and the request is
\* scored again
C5_Witness ==
  /\ Answered(out)
  /\ out.kind = "scored"
  /\ \E i \in 1..out.logLen :
        /\ log[i].user_id = out.user
        /\ log[i].content_hash = Hash(out.content)
        /\ out.t - log[i].created_at > 24

\* C6: an AnalyzeFile request that finds an entry of the same user, app,
\* file type and content hash created at most 24 hours earlier runs no file
\* scorer and appends no entry.
C6_FileDedup ==
  (out.op = "file" /\ out.kind \in {"scored", "fail_open"}) =>
     ~\E i \in InWindow(out.user, Hash(out.content), out.t, out.logLen) :
         /\ log[i].app_name = out.app
         /\ log[i].content_type = out.type

\* the fail-open default with the error under metadata
FailOpenDefault(res) ==
  /\ Verdict(res) = SafeDefault
  /\ "error" \in DOMAIN res.metadata

\* C7: when a scorer raises, analyze_content and analyze_file return safe /
\* 0.0 / allowed with the error under metadata, and no exception of a scorer
\* leaves the engine.
C7_FailOpen ==
  /\ \A p \in Procs :
        (/\ req[p].pc \in {"persist", "file_persist"}
         /\ req[p].faulted
         /\ (req[p].op = "file" \/ req[p].type \in {"message", "url", "call", "email"}))
        => FailOpenDefault(req[p].result)
  /\ (out.op \in {"analyze", "file"} /\ out.kind = "fail_open") =>
        FailOpenDefault(out.result) /\ out.entry = Len(log)
  /\ (out.op \in {"analyze", "file"} /\ out.kind = "engine_error") =>
        out.result.raised # "scorer"

\* the phone scorer raised on a number it would have blocked
C7_Witness ==
  /\ out.op = "analyze"
  /\ out.kind = "fail_open"
  /\ out.type = "call"
  /\ log[out.entry].threat_level = "safe"

\* C8: a failure of the engine's lazy initialization is answered with the
\* fail-open default, never with an exception out of analyze_content.
C8_InitFailOpen ==
  out.op = "analyze" => ~(out.kind = "engine_error" /\ out.result.raised = "init")

\* C9: an Analyze request whose duplicate lookup fails is scored as on a
\* miss; the request does not fail.
C9_StoreDownIsMiss ==
  out.op = "analyze" => out.kind # "store_error"

\* analyze rows of the fingerprint of r, written without a scorer fault
RaceRows(r, n) ==
  {i \in 1..n : /\ OwnFingerprint(log[i], r)
                /\ "error" \notin DOMAIN json_loads(log[i].metadata)}

C11_OneSettingPerUserApp ==
  /\ \A i, j \in 1..Len(settings) :
        (/\ settings[i].user_id = settings[j].user_id
         /\ settings[i].app_name = settings[j].app_name) => i = j
  /\ out.op \in {"toggle", "analyze", "file"} => out.kind # "settings_error"

\* a read request is answered in this step
ReadAnswered ==
  /\ out = NoResponse
  /\ out' # NoResponse
  /\ out'.op \in {"history", "stats", "apps"}

\* C12: no step modifies or removes an existing log entry, and GetHistory,
\* GetStats and GetAppSettings leave the log and the settings unchanged.
C12_AppendOnly ==
  [][ /\ Len(log') >= Len(log)
      /\ \A i \in 1..Len(log) : log'[i] = log[i]
      /\ ReadAnswered => (log' = log /\ settings' = settings) ]_vars

\* a history of two entries has been read while a setting exists
C12_Witness ==
  /\ out.op = "history"
  /\ Len(out.result.entries) = 2
  /\ Len(settings) > 0

\* C13: the log entry created by an Analyze or AnalyzeFile request stores
\* the threat level, confidence, action and categories that were returned.
C13_EntryStoresAssessment ==
  (/\ out.op \in {"analyze", "file"}
   /\ out.kind \in {"scored", "unsupported", "fail_open"}) =>
     /\ Verdict(log[out.entry]) = Verdict(out.result)
     /\ LoadsOr(log[out.entry].threat_categories, <<>>) = out.result.categories

\* C14: handling an Analyze or AnalyzeFile request constructs no engine and
\* runs no initialization.
C14_SingleEngine ==
  out.op \in {"analyze", "file"} =>
     ~out.engine.constructed /\ ~out.engine.initialize

\* a request of process p ends in this step without being answered
AbortedStep(p) ==
  /\ req[p].pc # "idle"
  /\ req'[p].pc = "idle"
  /\ out'.kind = "aborted"

\* C15: the log changes only in the step that persists a request holding a
\* complete assessment, and by exactly the entry of that assessment; a
\* request aborted before leaves the log and the settings as they were when
\* it arrived.
C15_PersistAfterAssessment ==
  [][ /\ log' # log =>
           \E p \in Procs :
              /\ req[p].pc \in {"persist", "file_persist"}
              /\ {"threat_level", "confidence_score", "action_taken"}
                    \subseteq DOMAIN req[p].result
              /\ req'[p].pc = "idle"
              /\ out'.kind # "aborted"
              /\ Len(log') = Len(log) + 1
              /\ Verdict(log'[Len(log')]) = Verdict(req[p].result)
      /\ \A p \in Procs :
            AbortedStep(p) =>
               /\ log' = log
               /\ settings' = settings
               /\ Len(log) = req[p].logLen ]_vars

\* an analysis request was aborted after its engine call, and the log, not
\* empty, is as the request found it
C15_Witness ==
  /\ out.op \in {"analyze", "file"}
  /\ out.kind = "aborted"
  /\ Len(log) = out.logLen
  /\ Len(log) > 0

\* the summary GetStats is to return for user u, period and time t
StatsSummary(u, period, t) ==
  LET hours == CASE period = "7d" -> 168 [] period = "30d" -> 720 [] OTHER -> 24
      rows == {i \in 1..Len(log) : log[i].user_id = u /\ t - log[i].created_at <= hours}
      apps == {log[i].app_name : i \in rows}
  IN  [total_protected |-> Cardinality(rows),
       threats_blocked |-> Cardinality({i \in rows : log[i].threat_level = "blocked"}),
       suspicious_items |-> Cardinality({i \in rows : log[i].threat_level = "suspicious"}),
       apps_protected |->
          Cardinality({a \in {settings[i].app_name : i \in 1..Len(settings)} :
                         \E i \in 1..Len(settings) :
                            /\ settings[i].user_id = u
                            /\ settings[i].app_name = a
                            /\ settings[i].is_enabled}),
       breakdown |->
          [a \in apps |->
             [protected |-> Cardinality({i \in rows : log[i].app_name = a}),
              blocked |-> Cardinality({i \in rows : /\ log[i].app_name = a
                                                    /\ log[i].threat_level = "blocked"})]]]

\* C16: GetStats returns the counts of the user's entries in the period, of
\* the blocked and the suspicious ones, of the enabled apps, and the per-app
\* breakdown.
C16_StatsSummary ==
  out.op = "stats" =>
     /\ out.kind = "stats"
     /\ out.result = StatsSummary(out.user, out.arg, out.t)

\* the log rows and the setting rows of user u, in order
OwnLog(l, u) == SelectSeq(l, LAMBDA row : row.user_id = u)

OwnSettings(st, u) == SelectSeq(st, LAMBDA row : row.user_id = u)

\* the user whose request this step serves
Actor(u) ==
  \/ out' # NoResponse /\ out'.user = u
  \/ \E p \in Procs : req'[p].pc # "idle" /\ req'[p].user = u

\* the assessment fields of a log row as a dedup hit returns them
StoredAssessment(row) ==
  <<row.threat_level, row.confidence_score, row.action_taken,
    row.threat_categories, row.metadata>>

\* the app settings mapping computed from the rows own of one user
OwnAppSettings(own) ==
  [a \in {"whatsapp", "phone", "sms", "email", "telegram"} |->
     IF \E i \in 1..Len(own) : own[i].app_name = a
     THEN LET row == own[CHOOSE i \in 1..Len(own) : own[i].app_name = a]
          IN  [enabled |-> row.is_enabled, protection_level |-> row.protection_level,
               auto_block |-> row.auto_block, notifications |-> row.notifications]
     ELSE [enabled |-> FALSE, protection_level |-> "medium",
           auto_block |-> TRUE, notifications |-> TRUE]]

\* the response sent in this step is what the rows own (log) and ownSet
\* (settings) of its user alone determine
FromOwnRows(own, ownSet) ==
  LET r == out'
      enabled == \E i \in 1..Len(ownSet) :
                    ownSet[i].app_name = r.app /\ ownSet[i].is_enabled
      fresh == {i \in 1..Len(own) : /\ own[i].content_hash = Hash(r.content)
                                    /\ r.t - own[i].created_at <= 24}
  IN  /\ r.op = "analyze" =>
           /\ r.kind = "gated" <=> ~enabled
           /\ r.kind = "cached" <=> (enabled /\ fresh # {})
           /\ r.kind = "cached" =>
                 \E i \in fresh :
                    StoredAssessment(own[i]) = StoredAssessment(log[r.entry])
           /\ r.kind \in {"scored", "unsupported"} =>
                 /\ log'[r.entry].user_id = r.user
                 /\ r.result = engine_analyze_content(r.type, ContentById(r.content), "none")
      /\ r.op = "history" =>
           /\ Len(r.result.entries) =
                 Cardinality({i \in 1..Len(own) :
                    r.arg.threat_level \in {"any", own[i].threat_level}})
           /\ \A k \in 1..Len(r.result.entries) :
                 \E i \in 1..Len(own) :
                    /\ own[i].app_name = r.result.entries[k].app_name
                    /\ own[i].content_type = r.result.entries[k].content_type
                    /\ own[i].threat_level = r.result.entries[k].threat_level
                    /\ own[i].confidence_score = r.result.entries[k].confidence_score
                    /\ own[i].action_taken = r.result.entries[k].action_taken
                    /\ own[i].created_at = r.result.entries[k].created_at
      /\ r.op = "apps" => r.result = OwnAppSettings(ownSet)
      /\ r.op = "stats" =>
           LET rows == {i \in 1..Len(own) : own[i].created_at >= r.t - PeriodHours(r.arg)}
           IN  /\ r.kind = "query_error"
               /\ StatsCounts(r.user, r.arg, r.t) =
                     [total_protected |-> Cardinality(rows),
                      threats_blocked |->
                         Cardinality({i \in rows : own[i].threat_level = "blocked"}),
                      suspicious_items |->
                         Cardinality({i \in rows : own[i].threat_level = "suspicious"}),
                      apps_protected |->
                         Cardinality({ownSet[i].app_name : i \in
                            {j \in 1..Len(ownSet) : ownSet[j].is_enabled}})]

Assessments ==
  (IF \/ out.op = "engine" /\ "raised" \notin DOMAIN out.result
      \/ out.op \in {"analyze", "file"} /\ out.kind \in Assessed
   THEN {out.result} ELSE {})
  \cup {req[p].result : p \in {q \in Procs : req[q].pc \in {"persist", "file_persist"}}}
  \cup {log[i] : i \in 1..Len(log)}

\* C18: every assessment the scorers and the Analyze and AnalyzeFile entry
\* points produce or store has 0 <= confidence <= 1, whatever the numbers of
\* pattern matches, urgency words, embedded URLs and embedded phone numbers.
C18_ConfidenceRange ==
  \A x \in Assessments : x.confidence_score >= 0 /\ x.confidence_score <= F(10)

\* a text with the most matches in every category, the most urgency words,
\* URLs and spam numbers is scored exactly 1.0
C18_Witness ==
  /\ out.op = "engine"
  /\ out.type = "message"
  /\ \A category \in DOMAIN out.content.matches :
        out.content.matches[category] = MaxMatches
  /\ out.content.urgency = MaxUrgency
  /\ Len(out.content.urls) = MaxUrls
  /\ Len(out.content.phones) = MaxPhones
  /\ out.result.confidence_score = F(10)

\* this step answers a toggle request that its caller did not abort
ToggleAnswered ==
  out = NoResponse /\ out' # NoResponse /\ out'.op = "toggle" /\ out'.kind # "aborted"

\* the setting a toggle creates
CreatedSetting(u, a, enabled) ==
  [user_id |-> u, app_name |-> a, is_enabled |-> enabled,
   protection_level |-> "medium", auto_block |-> TRUE, notifications |-> TRUE]

\* C19: ToggleApp with an app outside the five valid ones is rejected and
\* changes no setting; with a valid app it is carried out: it creates the
\* setting of (user, app) if there is none and otherwise changes only its
\* enabled flag, every other setting and the log stay as they were, and
\* GetAppSettings(user) then reports the requested value for the app and
\* all five apps, the ones without a setting with their defaults.
C19_ToggleFrame ==
  [][ ToggleAnswered =>
        LET r == out'
            rows == SettingRows(r.user, r.app)
        IN  /\ log' = log
            /\ r.app \notin valid_apps => r.kind = "invalid_app" /\ settings' = settings
            /\ r.app \in valid_apps =>
                 /\ r.kind = "toggled"
                 /\ rows = {} => settings' = Append(settings, CreatedSetting(r.user, r.app, r.arg))
                 /\ rows # {} =>
                      /\ Len(settings') = Len(settings)
                      /\ \A i \in 1..Len(settings) :
                            settings'[i] = IF i \in rows
                                           THEN [settings[i] EXCEPT !.is_enabled = r.arg]
                                           ELSE settings[i]
                 /\ \A u \in {"alice", "bob"} :
                      r.user = u =>
                        \A m \in AppSettingsResults(u)' :
                           /\ m[r.app].enabled = r.arg
                           /\ DOMAIN m = valid_apps
                           /\ \A a \in valid_apps :
                                 SettingRows(u, a)' = {} => m[a] = DefaultSetting ]_vars

\* C20: an Analyze request with a content type outside message, url, call
\* and email that passes the gate and meets no failure of the store or of
\* the engine's initialization is answered safe / 0.0 / allowed with the
\* message that the type is not supported, by the engine's unsupported-type
\* branch, and no scorer runs.
C20_UnsupportedType ==
  (Answered(out) /\ out.type \notin SupportedTypes) =>
     /\ out.kind = "unsupported"
     /\ Verdict(out.result) = SafeDefault
     /\ out.result.message = "analysis not supported yet"
     /\ ~out.scored

\* the direct call of analyze_content whose result is in out
Scored(type) ==
  /\ out.op = "engine"
  /\ out.entry = "analyze_content"
  /\ out.type = type
  /\ out.fault = "none"

\* sums of a function over a finite set and of a sequence
RECURSIVE SumOver(_, _)
SumOver(f, S) ==
  IF S = {} THEN 0
  ELSE LET x == CHOOSE y \in S : TRUE IN f[x] + SumOver(f, S \ {x})

SumSeq(q) == SumOver(q, DOMAIN q)

Least(a, b) == IF a <= b THEN a ELSE b

\* two scores that are the same number up to the rounding of the additions
Near(a, b) == a - b \in -1..1

\* what the text scorer adds for the URLs and phone numbers of text c
Embedded(c) ==
  SumSeq([i \in DOMAIN c.urls |-> analyze_url_in_text(c.urls[i])])
  + SumSeq([i \in DOMAIN c.phones |-> analyze_phone_in_text(c.phones[i])])

\* min(1, sum over categories of min(0.3 n, 0.8) + min(0.1 u, 0.3) + e), in
\* ten-thousandths
TextFormula(c) ==
  Least(10000,
        SumOver([k \in DOMAIN c.matches |-> Least(3000 * c.matches[k], 8000)],
                DOMAIN c.matches)
        + Least(1000 * c.urgency, 3000)
        + Embedded(c))

\* threat level and action that thresholds blockAt and flagAt give a score
Level(score, blockAt, flagAt) ==
  IF score >= blockAt THEN <<"blocked", "blocked">>
  ELSE IF score >= flagAt THEN <<"suspicious", "flagged">>
  ELSE <<"safe", "allowed">>

\* C21: the text scorer returns, up to the rounding of floating-point
\* addition, confidence min(1, sum over categories of min(0.3 n, 0.8) +
\* min(0.1 u, 0.3) + embedded contributions); its categories are exactly the
\* categories with a match; and its threat level and action are blocked /
\* blocked when that sum is at least 0.9, suspicious / flagged when it is at
\* least 0.6, else safe / allowed.
C21_TextFormula ==
  Scored("message") =>
    LET c == out.content
        res == out.result
    IN  /\ Near(res.confidence_score, TextFormula(c))
        /\ {res.categories[i] : i \in DOMAIN res.categories} =
              {k \in DOMAIN c.matches : c.matches[k] > 0}
        /\ <<res.threat_level, res.action_taken>> = Level(TextFormula(c), 9000, 6000)

\* threat level and action of an assessment
LevelOf(res) == <<res.threat_level, res.action_taken>>

\* 0.4 per shortener domain, 0.5 for a bare IP host, 0.3 per suspicious
\* pattern, 0.2 for a length over 200, 0.3 for more than 3 subdomains
UrlFormula(c) ==
  Least(10000,
        4000 * c.domains + (IF c.ip THEN 5000 ELSE 0) + 3000 * c.url_patterns
        + (IF c.text_length > 200 THEN 2000 ELSE 0)
        + (IF c.subdomain_count > 3 THEN 3000 ELSE 0))

\* C22: the URL scorer returns, up to the rounding of floating-point
\* addition, confidence min(1, 0.4 per shortener domain + 0.5 for a bare IP
\* host + 0.3 per suspicious pattern + 0.2 for a length over 200 + 0.3 for
\* more than 3 subdomains), with blocked / blocked when that sum is at least
\* 0.8, suspicious / flagged when it is at least 0.5, else safe / allowed; a
\* URL with no signal gets exactly 0.0 and safe.
C22_UrlFormula ==
  Scored("url") =>
    LET c == out.content
        res == out.result
    IN  /\ Near(res.confidence_score, UrlFormula(c))
        /\ LevelOf(res) = Level(UrlFormula(c), 8000, 5000)
        /\ LevelOf(res) = Level(res.confidence_score, 8000, 5000)
        /\ UrlFormula(c) = 0 => res.confidence_score = 0 /\ res.threat_level = "safe"

\* a long URL with one suspicious pattern is suspicious at exactly 0.5
C22_Witness ==
  /\ Scored("url")
  /\ out.content.url_patterns = 1
  /\ out.content.text_length > 200
  /\ out.content.domains = 0 /\ ~out.content.ip /\ out.content.subdomain_count <= 3
  /\ out.result.confidence_score = F(5)
  /\ out.result.threat_level = "suspicious"

\* 0.8 per spam pattern, 0.4 for fewer than 10 characters, 0.6 for at most
\* 2 distinct digits, 0.5 per premium-rate prefix
PhoneFormula(c) ==
  Least(10000,
        8000 * c.spam_number + (IF c.phone_length < 10 THEN 4000 ELSE 0)
        + (IF c.digits <= 2 THEN 6000 ELSE 0) + 5000 * c.premium)

\* C23: the phone scorer returns, up to the rounding of floating-point
\* addition, confidence min(1, 0.8 per spam pattern matched + 0.4 for a
\* normalized length under 10 + 0.6 for at most 2 distinct digits + 0.5 per
\* premium-rate prefix), with blocked / blocked when that sum is at least
\* 0.8, suspicious / flagged when it is at least 0.4, else safe / allowed;
\* "+1234567890" as a call is blocked with confidence at least 0.8.
C23_PhoneFormula ==
  Scored("call") =>
    LET c == out.content
        res == out.result
    IN  /\ Near(res.confidence_score, PhoneFormula(c))
        /\ LevelOf(res) = Level(PhoneFormula(c), 8000, 4000)
        /\ LevelOf(res) = Level(res.confidence_score, 8000, 4000)
        /\ c = PhoneNumber => res.threat_level = "blocked" /\ res.confidence_score >= F(8)

\* a short premium-rate number is blocked at 0.9
C23_Witness ==
  /\ Scored("call")
  /\ out.content.premium = 1
  /\ out.content.phone_length < 10
  /\ out.result.confidence_score = F(9)
  /\ out.result.threat_level = "blocked"

\* an embedded URL with d shortener domains and an embedded phone number,
\* as the URL and phone scorers receive them
EmbeddedUrl(d) == UrlInput(17, d, FALSE, 0, 1)

EmbeddedPhone(isSpam) == PhoneInput(11, IF isSpam THEN 1 ELSE 0, 5, 0)

\* C24: in a text without pattern matches and urgency words, the confidence
\* is, up to the cap at 1.0 and the rounding of the additions, the sum of
\* the confidences the URL scorer assigns to its URLs and the phone scorer
\* assigns to its phone numbers.
C24_EmbeddedScores ==
  (Scored("message") /\ out.content.urgency = 0
     /\ \A k \in DOMAIN out.content.matches : out.content.matches[k] = 0) =>
    LET c == out.content
    IN  Near(out.result.confidence_score,
             Least(10000,
                   SumSeq([i \in DOMAIN c.urls |->
                             analyze_url(EmbeddedUrl(c.urls[i])).confidence_score])
                   + SumSeq([i \in DOMAIN c.phones |->
                               analyze_phone(EmbeddedPhone(c.phones[i])).confidence_score])))

\* the reasons the claim lists: one per pattern match, one per urgency word,
\* one per URL and one per phone number that added a positive amount
Contributing(c) ==
  SumOver(c.matches, DOMAIN c.matches) + c.urgency
  + Cardinality({i \in DOMAIN c.urls : analyze_url_in_text(c.urls[i]) > 0})
  + Cardinality({i \in DOMAIN c.phones : analyze_phone_in_text(c.phones[i]) > 0})

\* C25: the risk factors of a text scorer result hold one reason for each
\* pattern match, each urgency word and each embedded URL and phone number
\* that added a positive amount; a positive confidence has a reason.
C25_RiskFactors ==
  Scored("message") =>
    /\ Len(out.result.metadata.risk_factors) = Contributing(out.content)
    /\ out.result.confidence_score > 0 => out.result.metadata.risk_factors # <<>>

\* the direct call of analyze_file whose result is in out
FileScored ==
  /\ out.op = "engine"
  /\ out.entry = "analyze_file"
  /\ out.fault = "none"

\* C26: the file scorer's threat level, confidence and action depend only on
\* the declared mime type and the size: an image over 5 MB is suspicious /
\* 0.3 / flagged and one of at most 5 MB safe / 0.0 / allowed; the two
\* executable mime types are blocked / 0.9 / blocked at any size; audio,
\* video and every other mime are safe / 0.0 / allowed at any size.
C26_FileScorer ==
  FileScored =>
    Verdict(out.result) =
      IF out.type = "image/png"
      THEN (IF out.content.size > 5 * 1024 * 1024
            THEN <<"suspicious", F(3), "flagged">> ELSE SafeDefault)
      ELSE IF out.type \in {"application/x-executable", "application/x-msdownload"}
      THEN <<"blocked", F(9), "blocked">>
      ELSE SafeDefault

\* an image of exactly 5 MB is safe
C26_Witness ==
  /\ FileScored
  /\ out.type = "image/png"
  /\ out.content.size = 5 * 1024 * 1024
  /\ out.result.threat_level = "safe"

\* log rows of user u written by Analyze from a fail-open default or from
\* the unsupported-type passthrough
Passthrough(u) ==
  {i \in 1..Len(log) :
     /\ log[i].user_id = u
     /\ log[i].metadata # Null
     /\ \/ "error" \in DOMAIN json_loads(log[i].metadata)
        \/ DOMAIN json_loads(log[i].metadata) = {"content_type"}}

\* C27: fail-open and unsupported-type results are logged as ordinary
\* entries: a GetStats over a period that holds such entries of the user
\* returns a summary whose total_protected counts them, and an Analyze by
\* the same user for the same content within 24 hours of such an entry is a
\* dedup hit that runs no scorer.
C27_PassthroughPersisted ==
  /\ (out.op = "stats"
        /\ \E i \in Passthrough(out.user) :
              log[i].created_at >= out.t - PeriodHours(out.arg)) =>
       /\ out.kind # "query_error"
       /\ out.result.total_protected >=
             Cardinality({i \in Passthrough(out.user) :
                            log[i].created_at >= out.t - PeriodHours(out.arg)})
  /\ (Answered(out)
        /\ \E i \in Passthrough(out.user) \cap (1..out.logLen) :
              /\ log[i].content_hash = Hash(out.content)
              /\ out.t - log[i].created_at <= 24) =>
       /\ out.kind = "cached"
       /\ ~out.scored

\* C28: a URL scorer or phone scorer result has a category (malicious_url,
\* spam_call) exactly when its threat level is not safe.
C28_CategoryIffNotSafe ==
  (Scored("url") \/ Scored("call")) =>
    LET res == out.result
    IN  /\ res.categories # <<>> <=> res.threat_level # "safe"
        /\ res.categories \in
              {<<>>, IF out.type = "url" THEN <<"malicious_url">> ELSE <<"spam_call">>}

====
